---------------------------- MODULE Spec2Model ----------------------------
(***************************************************************************)
(* A model of cpp-graph-autodiff (src/src/graph.h, src/src/graph.cpp):     *)
(* expression graphs over Const, Var, Sum and Mul nodes held by shared     *)
(* pointers, their evaluation (eval), forward-mode differentiation         *)
(* (eval_grad), and the protobuf codec (to_proto, from_proto, to_file,     *)
(* from_file).                                                             *)
(*                                                                         *)
(* Nodes live in a heap (a sequence); a shared_ptr<const Op> is an index   *)
(* into it.  A float is modelled by an integer: every value the bounded    *)
(* model computes is a small integer, which a float represents exactly.    *)
(* A std::string is a sequence of character codes, compared as             *)
(* std::string compares.  std::abort() ends the process: proc becomes      *)
(* "aborted" and no operation runs afterwards.  handles counts the file    *)
(* handles the process holds open.                                         *)
(***************************************************************************)
EXTENDS Integers, Sequences, FiniteSets, TLC

VARIABLES heap, call, ret, proc, file, pb, handles

vars == <<heap, call, ret, proc, file, pb, handles>>

(***************************************************************************)
(* Bounds of the model.                                                    *)
(***************************************************************************)
\* nodes the construction operators may allocate (evaluation and message runs)
MaxNodes == 3
\* nodes the construction operators may allocate (file runs)
MaxCodecNodes == 2
\* records of the largest message that is decoded
MaxRecords == 5

(***************************************************************************)
(* Names, values and Inputs.                                               *)
(***************************************************************************)
NameX == <<120>>
NameY == <<121>>
VarNames == {NameX, NameY}

ConstVals == {2}

\* the values the runs bind the names to
Binding == (NameX :> 3) @@ (NameY :> 4)

\* std::string's operator<, the order std::sort uses (graph.cpp:75)
RECURSIVE StrLess(_, _)
StrLess(a, b) ==
  IF b = <<>> THEN FALSE
  ELSE IF a = <<>> THEN TRUE
  ELSE IF Head(a) < Head(b) THEN TRUE
  ELSE IF Head(b) < Head(a) THEN FALSE
  ELSE StrLess(Tail(a), Tail(b))

\* Inputs = absl::flat_hash_map<std::string, float>: a finite map
InputsSet ==
  {[n \in D |-> Binding[n]] : D \in SUBSET VarNames}

\* the orders in which a flat_hash_map may hand out its keys (unspecified)
IterOrders(inputs) ==
  {s \in [1..Cardinality(DOMAIN inputs) -> DOMAIN inputs] :
     \A i, j \in DOMAIN s : i # j => s[i] # s[j]}

(***************************************************************************)
(* Nodes.                                                                  *)
(***************************************************************************)
ConstNode(v) == [kind |-> "Const", value |-> v, name |-> <<>>, op1 |-> 0, op2 |-> 0]

VarNode(n) == [kind |-> "Var", value |-> 0, name |-> n, op1 |-> 0, op2 |-> 0]

SumNode(a, b) == [kind |-> "Sum", value |-> 0, name |-> <<>>, op1 |-> a, op2 |-> b]

MulNode(a, b) == [kind |-> "Mul", value |-> 0, name |-> <<>>, op1 |-> a, op2 |-> b]

BinNode(kind, a, b) == IF kind = "Sum" THEN SumNode(a, b) ELSE MulNode(a, b)

Roots == 1..Len(heap)


(***************************************************************************)
(* eval: graph.cpp 82-85, 128-131, 176-179, 208-214; graph.h 175.          *)
(* A result is [status, value]; status "abort" is std::abort().            *)
(***************************************************************************)
Ok(v) == [status |-> "ok", value |-> v]

Aborted == [status |-> "abort", value |-> 0]

Const_eval(n, inputs) == Ok(n.value)

Var_eval(n, inputs) ==
  IF n.name \notin DOMAIN inputs THEN Aborted ELSE Ok(inputs[n.name])

Sum_eval(r1, r2) ==
  IF r1.status = "abort" \/ r2.status = "abort" THEN Aborted
  ELSE Ok(r1.value + r2.value)

\* Mul::eval adding its operands, as Sum::eval does
Mul_eval_adds(r1, r2) ==
  IF r1.status = "abort" \/ r2.status = "abort" THEN Aborted
  ELSE Ok(r1.value + r2.value)

Mul_eval(r1, r2) ==
  IF r1.status = "abort" \/ r2.status = "abort" THEN Aborted
  ELSE Ok(r1.value * r2.value)

RECURSIVE Op_eval(_, _, _)
Op_eval(h, i, inputs) ==
  LET n == h[i] IN
  CASE n.kind = "Const" -> Const_eval(n, inputs)
    [] n.kind = "Var" -> Var_eval(n, inputs)
    [] n.kind = "Sum" ->
         Sum_eval(Op_eval(h, n.op1, inputs), Op_eval(h, n.op2, inputs))
    [] n.kind = "Mul" ->
         Mul_eval(Op_eval(h, n.op1, inputs), Op_eval(h, n.op2, inputs))

Graph_eval(h, g, inputs) == Op_eval(h, g, inputs)

(***************************************************************************)
(* find_var_idx: graph.cpp 70-79.  iter is the order in which the hash map *)
(* hands out its keys; the result is a 0-based position, Len when the name *)
(* is not a key.                                                           *)
(***************************************************************************)
RECURSIVE InsertSorted(_, _)
InsertSorted(s, x) ==
  IF s = <<>> THEN <<x>>
  ELSE IF StrLess(x, Head(s)) THEN <<x>> \o s
  ELSE <<Head(s)>> \o InsertSorted(Tail(s), x)

RECURSIVE StdSort(_)
StdSort(s) ==
  IF s = <<>> THEN <<>>
  ELSE InsertSorted(StdSort(SubSeq(s, 1, Len(s) - 1)), s[Len(s)])

RECURSIVE StdFind(_, _, _)
StdFind(s, x, from) ==
  IF from > Len(s) THEN Len(s)
  ELSE IF s[from] = x THEN from - 1
  ELSE StdFind(s, x, from + 1)

\* the name list left in the hash map's order
var_names_unsorted(iter) == iter

var_names(iter) == StdSort(iter)

find_var_idx(name, iter) == StdFind(var_names(iter), name, 1)

(***************************************************************************)
(* eval_grad: graph.cpp 87-105, 133-153, 181-196, 216-226.                 *)
(* A result is [status, value, grad, builds, oob]: grad is the buffer the  *)
(* node filled (positions 1..n for the code's 0..n-1), builds counts the   *)
(* calls of find_var_idx (each builds and sorts the name list), oob says   *)
(* that a write fell outside the buffer.                                   *)
(***************************************************************************)
Zeros(n) == [i \in 1..n |-> 0]

GradAborted(builds, oob) ==
  [status |-> "abort", value |-> 0, grad |-> <<>>, builds |-> builds, oob |-> oob]

Const_eval_grad(n, inputs) ==
  [status |-> "ok", value |-> n.value,
   grad |-> Zeros(Cardinality(DOMAIN inputs)), builds |-> 0, oob |-> FALSE]

Var_eval_grad(n, inputs, iter) ==
  LET size == Cardinality(DOMAIN inputs)
      var_idx == find_var_idx(n.name, iter)
      r == Var_eval(n, inputs)
  IN IF var_idx >= size
       THEN GradAborted(1, TRUE)
       ELSE [status |-> r.status, value |-> r.value,
             grad |-> [Zeros(size) EXCEPT ![var_idx + 1] = 1],
             builds |-> 1, oob |-> FALSE]

\* a 1x2 row vector times the 2xn jacobian
RowTimesJacobian(row, jacobian) ==
  [j \in 1..Len(jacobian[1]) |->
     row[1] * jacobian[1][j] + row[2] * jacobian[2][j]]

Sum_eval_grad(r1, r2) ==
  IF r1.status = "abort" THEN r1
  ELSE IF r2.status = "abort"
    THEN GradAborted(r1.builds + r2.builds, r2.oob)
  ELSE [status |-> "ok", value |-> r1.value + r2.value,
        grad |-> RowTimesJacobian(<<1, 1>>, <<r1.grad, r2.grad>>),
        builds |-> r1.builds + r2.builds, oob |-> FALSE]

\* the product rule with each operand's gradient scaled by its own value
Mul_eval_grad_unswapped(r1, r2) ==
  IF r1.status = "abort" THEN r1
  ELSE IF r2.status = "abort"
    THEN GradAborted(r1.builds + r2.builds, r2.oob)
  ELSE [status |-> "ok", value |-> r1.value * r2.value,
        grad |-> RowTimesJacobian(<<r1.value, r2.value>>, <<r1.grad, r2.grad>>),
        builds |-> r1.builds + r2.builds, oob |-> FALSE]

Mul_eval_grad(r1, r2) ==
  IF r1.status = "abort" THEN r1
  ELSE IF r2.status = "abort"
    THEN GradAborted(r1.builds + r2.builds, r2.oob)
  ELSE [status |-> "ok", value |-> r1.value * r2.value,
        grad |-> RowTimesJacobian(<<r2.value, r1.value>>, <<r1.grad, r2.grad>>),
        builds |-> r1.builds + r2.builds, oob |-> FALSE]

RECURSIVE Op_eval_grad(_, _, _, _)
Op_eval_grad(h, i, inputs, iter) ==
  LET n == h[i] IN
  CASE n.kind = "Const" -> Const_eval_grad(n, inputs)
    [] n.kind = "Var" -> Var_eval_grad(n, inputs, iter)
    [] n.kind = "Sum" ->
         LET r1 == Op_eval_grad(h, n.op1, inputs, iter) IN
         IF r1.status = "abort" THEN r1
         ELSE Sum_eval_grad(r1, Op_eval_grad(h, n.op2, inputs, iter))
    [] n.kind = "Mul" ->
         LET r1 == Op_eval_grad(h, n.op1, inputs, iter) IN
         IF r1.status = "abort" THEN r1
         ELSE Mul_eval_grad(r1, Op_eval_grad(h, n.op2, inputs, iter))

Graph_eval_grad(h, g, inputs, iter) == Op_eval_grad(h, g, inputs, iter)

(***************************************************************************)
(* Construction: graph.h 108-118 (Graph, Graph + Graph, Graph * Graph),    *)
(* 148-173 (Const overloads), 197-238 (Var overloads).  An operand is a    *)
(* Const, a Var or a Graph (the heap index of its root).                   *)
(***************************************************************************)
ConstOperand(v) == [tag |-> "Const", value |-> v, name |-> <<>>, root |-> 0]

VarOperand(n) == [tag |-> "Var", value |-> 0, name |-> n, root |-> 0]

GraphOperand(g) == [tag |-> "Graph", value |-> 0, name |-> <<>>, root |-> g]

Leaves ==
  {ConstOperand(v) : v \in ConstVals} \cup {VarOperand(n) : n \in VarNames}

Operands == Leaves \cup {GraphOperand(g) : g \in Roots}

\* std::make_shared<const Const>(c) / std::make_shared<const Var>(v)
MakeShared(h, leaf) ==
  Append(h, IF leaf.tag = "Const" THEN ConstNode(leaf.value)
            ELSE VarNode(leaf.name))

\* a combination that copies the root of its first operand
GraphCombine_copies(h, kind, g1, g2) ==
  Append(Append(h, h[g1]), BinNode(kind, Len(h) + 1, g2))

\* operator+(const Graph&, const Graph&) / operator*(const Graph&, const Graph&)
GraphCombine(h, kind, g1, g2) == Append(h, BinNode(kind, g1, g2))

\* The overloads that hand their operands on in the other order:
\* Const op Graph, Var op Graph (graph.h 159, 173, 216, 238) and
\* Var op Const (graph.h 209, 231).
Swapped(a, b) ==
  \/ a.tag # "Graph" /\ b.tag = "Graph"
  \/ a.tag = "Var" /\ b.tag = "Const"

\* a op b for any two operands: the heap after the call
Combine(h, kind, a, b) ==
  LET l == IF Swapped(a, b) THEN b ELSE a
      r == IF Swapped(a, b) THEN a ELSE b
      h1 == IF l.tag = "Graph" THEN h ELSE MakeShared(h, l)
      g1 == IF l.tag = "Graph" THEN l.root ELSE Len(h1)
      h2 == IF r.tag = "Graph" THEN h1 ELSE MakeShared(h1, r)
      g2 == IF r.tag = "Graph" THEN r.root ELSE Len(h2)
  IN GraphCombine(h2, kind, g1, g2)

NoCall == [op |-> "none"]

NoRet == [status |-> "none"]

NoFile == [state |-> "absent"]

\* Graph(std::make_shared<const Const>(c)), Graph(std::make_shared<const Var>(v))
MkGraph(bound) ==
  /\ proc = "running"
  /\ Len(heap) < bound
  /\ \E leaf \in Leaves :
       /\ heap' = MakeShared(heap, leaf)
       /\ call' = [op |-> "graph", leaf |-> leaf]
       /\ ret' = [status |-> "ok", graph |-> Len(heap')]
  /\ UNCHANGED <<proc, file, pb, handles>>

\* a + b
Plus(bound) ==
  /\ proc = "running"
  /\ \E a, b \in Operands :
       /\ Len(Combine(heap, "Sum", a, b)) <= bound
       /\ heap' = Combine(heap, "Sum", a, b)
       /\ call' = [op |-> "plus", a |-> a, b |-> b]
       /\ ret' = [status |-> "ok", graph |-> Len(heap')]
  /\ UNCHANGED <<proc, file, pb, handles>>

\* a * b
Times(bound) ==
  /\ proc = "running"
  /\ \E a, b \in Operands :
       /\ Len(Combine(heap, "Mul", a, b)) <= bound
       /\ heap' = Combine(heap, "Mul", a, b)
       /\ call' = [op |-> "times", a |-> a, b |-> b]
       /\ ret' = [status |-> "ok", graph |-> Len(heap')]
  /\ UNCHANGED <<proc, file, pb, handles>>

(***************************************************************************)
(* The evaluation entry points: graph.cpp 176-188.                         *)
(***************************************************************************)
Eval ==
  /\ proc = "running"
  /\ \E g \in Roots, inputs \in InputsSet :
       /\ call' = [op |-> "eval", g |-> g, inputs |-> inputs]
       /\ ret' = Graph_eval(heap, g, inputs)
       /\ proc' = IF ret'.status = "abort" THEN "aborted" ELSE "running"
  /\ UNCHANGED <<heap, file, pb, handles>>

EvalGrad ==
  /\ proc = "running"
  /\ \E g \in Roots, inputs \in InputsSet :
       \E iter \in IterOrders(inputs) :
         /\ call' = [op |-> "eval_grad", g |-> g, inputs |-> inputs, iter |-> iter]
         /\ ret' = Graph_eval_grad(heap, g, inputs, iter)
         /\ proc' = IF ret'.status = "abort" THEN "aborted" ELSE "running"
  /\ UNCHANGED <<heap, file, pb, handles>>

Init ==
  /\ heap = <<>>
  /\ call = NoCall
  /\ ret = NoRet
  /\ proc = "running"
  /\ file = NoFile
  /\ pb = "live"
  /\ handles = 0

Next ==
  \/ MkGraph(MaxNodes)
  \/ Plus(MaxNodes)
  \/ Times(MaxNodes)
  \/ Eval
  \/ EvalGrad

Spec == Init /\ [][Next]_vars

(***************************************************************************)
(* Reference semantics, on the expression a graph denotes.                 *)
(***************************************************************************)
\* the expression rooted at node i, shared subgraphs written out
RECURSIVE Unfold(_, _)
Unfold(h, i) ==
  LET n == h[i] IN
  CASE n.kind = "Const" -> <<"Const", n.value>>
    [] n.kind = "Var" -> <<"Var", n.name>>
    [] OTHER -> <<n.kind, Unfold(h, n.op1), Unfold(h, n.op2)>>

\* the names an expression refers to
RECURSIVE NamesOf(_)
NamesOf(t) ==
  CASE t[1] = "Const" -> {}
    [] t[1] = "Var" -> {t[2]}
    [] OTHER -> NamesOf(t[2]) \cup NamesOf(t[3])

\* the inputs binding holds every name the graph refers to
Bound(h, g, inputs) == NamesOf(Unfold(h, g)) \subseteq DOMAIN inputs

\* the value of an expression
RECURSIVE RefValue(_, _)
RefValue(t, inputs) ==
  CASE t[1] = "Const" -> t[2]
    [] t[1] = "Var" -> inputs[t[2]]
    [] t[1] = "Sum" -> RefValue(t[2], inputs) + RefValue(t[3], inputs)
    [] t[1] = "Mul" -> RefValue(t[2], inputs) * RefValue(t[3], inputs)

\* the partial derivative of an expression with respect to one name
RECURSIVE Partial(_, _, _)
Partial(t, wrt, inputs) ==
  CASE t[1] = "Const" -> 0
    [] t[1] = "Var" -> IF t[2] = wrt THEN 1 ELSE 0
    [] t[1] = "Sum" -> Partial(t[2], wrt, inputs) + Partial(t[3], wrt, inputs)
    [] t[1] = "Mul" ->
         Partial(t[2], wrt, inputs) * RefValue(t[3], inputs)
           + RefValue(t[2], inputs) * Partial(t[3], wrt, inputs)

\* the position of a name among the keys of inputs in ascending order (from 1)
Rank(name, inputs) ==
  Cardinality({m \in DOMAIN inputs : StrLess(m, name)}) + 1

\* forward mode: the (value, gradient) pair of an expression
RECURSIVE RefForward(_, _)
RefForward(t, inputs) ==
  LET n == Cardinality(DOMAIN inputs) IN
  CASE t[1] = "Const" -> [value |-> t[2], grad |-> [i \in 1..n |-> 0]]
    [] t[1] = "Var" ->
         [value |-> inputs[t[2]],
          grad |-> [i \in 1..n |-> IF i = Rank(t[2], inputs) THEN 1 ELSE 0]]
    [] t[1] = "Sum" ->
         LET p1 == RefForward(t[2], inputs)
             p2 == RefForward(t[3], inputs)
         IN [value |-> p1.value + p2.value,
             grad |-> [i \in 1..n |-> p1.grad[i] + p2.grad[i]]]
    [] t[1] = "Mul" ->
         LET p1 == RefForward(t[2], inputs)
             p2 == RefForward(t[3], inputs)
         IN [value |-> p1.value * p2.value,
             grad |-> [i \in 1..n |->
                         p2.value * p1.grad[i] + p1.value * p2.grad[i]]]

\* what an operand of + or * evaluates to
OperandValue(h, a, inputs) ==
  CASE a.tag = "Const" -> a.value
    [] a.tag = "Var" -> inputs[a.name]
    [] a.tag = "Graph" -> Graph_eval(h, a.root, inputs).value

OperandBound(h, a, inputs) ==
  CASE a.tag = "Const" -> TRUE
    [] a.tag = "Var" -> a.name \in DOMAIN inputs
    [] a.tag = "Graph" -> Bound(h, a.root, inputs)

(***************************************************************************)
(* Claims about evaluation.                                                *)
(***************************************************************************)
\* C1: with every referenced name bound, eval returns the value defined by
\* Const -> stored value, Var -> bound value, Sum -> sum, Mul -> product of
\* the operands' values; and a + b / a * b, for any two operands among
\* Const, Var and Graph (a graph with itself included), evaluates to the sum
\* / product of what the operands evaluate to.
C1_EvalValue ==
  /\ (call.op = "eval" /\ Bound(heap, call.g, call.inputs)) =>
       /\ ret.status = "ok"
       /\ ret.value = RefValue(Unfold(heap, call.g), call.inputs)
  /\ call.op \in {"plus", "times"} =>
       \A inputs \in InputsSet :
         (OperandBound(heap, call.a, inputs) /\ OperandBound(heap, call.b, inputs)) =>
           LET r == Graph_eval(heap, ret.graph, inputs)
               va == OperandValue(heap, call.a, inputs)
               vb == OperandValue(heap, call.b, inputs)
           IN /\ r.status = "ok"
              /\ r.value = IF call.op = "plus" THEN va + vb ELSE va * vb

\* (x + x) * (x + x), the Sum graph combined with itself, evaluated at x = 3
C1_Witness ==
  /\ call.op = "eval"
  /\ heap[call.g].kind = "Mul"
  /\ heap[call.g].op1 = heap[call.g].op2
  /\ heap[heap[call.g].op1].kind = "Sum"
  /\ DOMAIN call.inputs = VarNames
  /\ ret.status = "ok"
  /\ ret.value = 36

\* C2: a Var whose name is absent from Inputs makes eval / eval_grad return
\* a MissingVariable error to the caller; the process keeps running.
C2_MissingVariableRecoverable ==
  (call.op \in {"eval", "eval_grad"} /\ ~Bound(heap, call.g, call.inputs)) =>
    /\ proc = "running"
    /\ ret.status = "MissingVariable"

\* C3: with every referenced name bound, the gradient has one entry per key
\* of Inputs, entry i is the partial derivative with respect to the i-th key
\* in ascending order, and the entries of keys the graph never refers to
\* are 0.
C3_GradientShape ==
  (call.op = "eval_grad" /\ Bound(heap, call.g, call.inputs)) =>
    /\ ret.status = "ok"
    /\ Len(ret.grad) = Cardinality(DOMAIN call.inputs)
    /\ \A name \in DOMAIN call.inputs :
         /\ ret.grad[Rank(name, call.inputs)]
              = Partial(Unfold(heap, call.g), name, call.inputs)
         /\ name \notin NamesOf(Unfold(heap, call.g)) =>
              ret.grad[Rank(name, call.inputs)] = 0

\* the gradient of a graph over x alone, taken with x and y bound and the
\* hash map handing out y before x
C3_Witness ==
  /\ call.op = "eval_grad"
  /\ call.iter = <<NameY, NameX>>
  /\ NamesOf(Unfold(heap, call.g)) = {NameX}
  /\ heap[call.g].kind = "Mul"
  /\ ret.status = "ok"
  /\ ret.grad[1] # 0
  /\ ret.grad[2] = 0

\* C4: with every referenced name bound, eval_grad returns the pair of the
\* forward-mode recursion (zero vector, one-hot vector, sum rule, product
\* rule), and its value is the one eval returns on the same Inputs.
C4_ForwardMode ==
  (call.op = "eval_grad" /\ Bound(heap, call.g, call.inputs)) =>
    LET ref == RefForward(Unfold(heap, call.g), call.inputs) IN
    /\ ret.status = "ok"
    /\ ret.value = ref.value
    /\ ret.grad = ref.grad
    /\ ret.value = Graph_eval(heap, call.g, call.inputs).value

\* the product of a sum and a variable: the product rule over the sum rule
C4_Witness ==
  /\ call.op = "eval_grad"
  /\ heap[call.g].kind = "Mul"
  /\ {heap[heap[call.g].op1].kind, heap[heap[call.g].op2].kind} = {"Sum", "Var"}
  /\ DOMAIN call.inputs = VarNames
  /\ ret.status = "ok"
  /\ ret.grad = <<12, 0>>

\* C7: Graph + Graph and Graph * Graph allocate exactly one node, whose
\* operands are the two roots themselves, and no step changes a node that
\* exists or what a graph that exists evaluates to.
C7_Composition ==
  [][/\ Len(heap') >= Len(heap)
     /\ heap' # heap =>
          \A g \in 1..Len(heap) :
            /\ heap'[g] = heap[g]
            /\ \A inputs \in InputsSet :
                 /\ Graph_eval(heap', g, inputs) = Graph_eval(heap, g, inputs)
                 /\ \A iter \in IterOrders(inputs) :
                      Graph_eval_grad(heap', g, inputs, iter)
                        = Graph_eval_grad(heap, g, inputs, iter)
     /\ (/\ call'.op \in {"plus", "times"}
         /\ call'.a.tag = "Graph"
         /\ call'.b.tag = "Graph") =>
          /\ Len(heap') = Len(heap) + 1
          /\ heap'[Len(heap')] =
               BinNode(IF call'.op = "plus" THEN "Sum" ELSE "Mul",
                       call'.a.root, call'.b.root)]_vars

\* a composition result reused as both operands of a later composition
C7_Witness ==
  /\ call.op \in {"plus", "times"}
  /\ call.a.tag = "Graph"
  /\ call.b.tag = "Graph"
  /\ call.a.root = call.b.root
  /\ heap[call.a.root].kind \in {"Sum", "Mul"}
  /\ Len(heap) = call.a.root + 1

\* C8: one eval_grad call builds the sorted name list exactly once.
C8_MappingBuiltOnce ==
  (call.op = "eval_grad" /\ ret.status = "ok") => ret.builds = 1

(***************************************************************************)
(* The codec: graph.cpp 22-68, 107-126, 155-174, 198-206, 228-246.         *)
(* A gpb::Graph is [Op_case, body]: body is a gpb::Sum / gpb::Mul          *)
(* [op1, op2], a gpb::Var [name] or a gpb::Const [value].  A message field *)
(* that was never set reads as the default message, whose Op_case is       *)
(* OP_NOT_SET.                                                             *)
(***************************************************************************)
DefaultGraph == [Op_case |-> "OP_NOT_SET"]

\* make_proto_graph never sees OP_NOT_SET: every to_proto names its own case
make_proto_graph(optype, opptr) == [Op_case |-> optype, body |-> opptr]

Const_to_proto(n) == <<"kConst", [value |-> n.value]>>

Var_to_proto(n) == <<"kVar", [name |-> n.name]>>

\* Sum::to_proto that never sets op2
Sum_to_proto_drops_op2(p1, p2) ==
  <<"kSum", [op1 |-> make_proto_graph(p1[1], p1[2]), op2 |-> DefaultGraph]>>

Sum_to_proto(p1, p2) ==
  <<"kSum", [op1 |-> make_proto_graph(p1[1], p1[2]),
             op2 |-> make_proto_graph(p2[1], p2[2])]>>

Mul_to_proto(p1, p2) ==
  <<"kMul", [op1 |-> make_proto_graph(p1[1], p1[2]),
             op2 |-> make_proto_graph(p2[1], p2[2])]>>

RECURSIVE Op_to_proto(_, _)
Op_to_proto(h, i) ==
  LET n == h[i] IN
  CASE n.kind = "Const" -> Const_to_proto(n)
    [] n.kind = "Var" -> Var_to_proto(n)
    [] n.kind = "Sum" -> Sum_to_proto(Op_to_proto(h, n.op1), Op_to_proto(h, n.op2))
    [] n.kind = "Mul" -> Mul_to_proto(Op_to_proto(h, n.op1), Op_to_proto(h, n.op2))

Graph_to_proto(h, g) ==
  LET p == Op_to_proto(h, g) IN make_proto_graph(p[1], p[2])

\* the records of a message, nested ones included
RECURSIVE NumRecords(_)
NumRecords(gproto) ==
  IF gproto.Op_case \in {"kSum", "kMul"}
    THEN 1 + NumRecords(gproto.body.op1) + NumRecords(gproto.body.op2)
    ELSE 1

\* A decoding result is [status, heap, op]: the heap with the nodes built
\* and the index of the node built last; status "abort" is std::abort().
DecodeAborted(h) == [status |-> "abort", heap |-> h, op |-> 0]

Const_from_proto(cproto, h) ==
  [status |-> "ok", heap |-> Append(h, ConstNode(cproto.value)), op |-> Len(h) + 1]

Var_from_proto(vproto, h) ==
  [status |-> "ok", heap |-> Append(h, VarNode(vproto.name)), op |-> Len(h) + 1]

\* std::make_unique<Sum>(op1, op2) / std::make_unique<Mul>(op1, op2)
Bin_make_unique(kind, r1, r2) ==
  [status |-> "ok", heap |-> Append(r2.heap, BinNode(kind, r1.op, r2.op)),
   op |-> Len(r2.heap) + 1]

RECURSIVE op_from_proto(_, _)
op_from_proto(gproto, h) ==
  CASE gproto.Op_case \in {"kSum", "kMul"} ->
         \* Sum::from_proto / Mul::from_proto
         LET r1 == op_from_proto(gproto.body.op1, h) IN
         IF r1.status = "abort" THEN DecodeAborted(h)
         ELSE LET r2 == op_from_proto(gproto.body.op2, r1.heap) IN
              IF r2.status = "abort" THEN DecodeAborted(h)
              ELSE Bin_make_unique(IF gproto.Op_case = "kSum" THEN "Sum" ELSE "Mul",
                                   r1, r2)
    [] gproto.Op_case = "kVar" -> Var_from_proto(gproto.body, h)
    [] gproto.Op_case = "kConst" -> Const_from_proto(gproto.body, h)
    [] gproto.Op_case = "OP_NOT_SET" -> DecodeAborted(h)

Graph_from_proto(gproto, h) == op_from_proto(gproto, h)

(***************************************************************************)
(* Messages and files that come from outside the process.                  *)
(***************************************************************************)
VarMsg(n) == make_proto_graph("kVar", [name |-> n])

ConstMsg(v) == make_proto_graph("kConst", [value |-> v])

SumMsg(p1, p2) == make_proto_graph("kSum", [op1 |-> p1, op2 |-> p2])

MulMsg(p1, p2) == make_proto_graph("kMul", [op1 |-> p1, op2 |-> p2])

\* well-formed: x + 2 * x
GoodMsg == SumMsg(VarMsg(NameX), MulMsg(ConstMsg(2), VarMsg(NameX)))

\* a Sum record that lacks op1
SumLacksOp1 == SumMsg(DefaultGraph, VarMsg(NameX))

\* a Mul record whose nested Sum lacks op2
NestedLacksOp2 == MulMsg(ConstMsg(2), SumMsg(VarMsg(NameY), DefaultGraph))

ForeignMsgs == {GoodMsg, DefaultGraph, SumLacksOp1, NestedLacksOp2}

\* whether every record of a message carries a case, at every depth
RECURSIVE WellFormed(_)
WellFormed(gproto) ==
  CASE gproto.Op_case \in {"kSum", "kMul"} ->
         WellFormed(gproto.body.op1) /\ WellFormed(gproto.body.op2)
    [] gproto.Op_case \in {"kVar", "kConst"} -> TRUE
    [] OTHER -> FALSE

\* a file is absent, holds bytes no message parses from, or holds the
\* encoding of a message
Garbage == [state |-> "bytes", parses |-> FALSE]

Encoded(gproto) == [state |-> "bytes", parses |-> TRUE, message |-> gproto]

InitialFiles == {NoFile, Garbage} \cup {Encoded(m) : m \in ForeignMsgs}

GoodPath == "test.pb"

BadPath == "missing_dir/test.pb"

Paths == {GoodPath, BadPath}

(***************************************************************************)
(* The protobuf library's process-wide state: pb is "live" until           *)
(* google::protobuf::ShutdownProtobufLibrary() (graph.cpp 268, 287) makes  *)
(* it "shutdown".  The library documents that none of it may be used after *)
(* that call: a later use is undefined behaviour, which here either works  *)
(* as before or ends the process.                                          *)
(***************************************************************************)
UseOutcomes == IF pb = "shutdown" THEN {"works", "crash"} ELSE {"works"}

Crash(c) ==
  /\ call' = c
  /\ ret' = [status |-> "abort"]
  /\ proc' = "aborted"
  /\ UNCHANGED <<heap, file, pb, handles>>

\* Graph::to_proto: graph.cpp 238-242
ToProto ==
  /\ proc = "running"
  /\ \E g \in Roots, use \in UseOutcomes :
       LET c == [op |-> "to_proto", g |-> g, pbAtEntry |-> pb] IN
       IF use = "crash" THEN Crash(c)
       ELSE /\ call' = c
            /\ ret' = [status |-> "ok", msg |-> Graph_to_proto(heap, g)]
            /\ UNCHANGED <<heap, proc, file, pb, handles>>

\* the messages at hand: the one to_proto just returned, or one from outside
MsgsAtHand ==
  ForeignMsgs \cup
    (IF call.op = "to_proto" /\ ret.status = "ok" THEN {ret.msg} ELSE {})

\* Graph::from_proto: graph.cpp 244-246
FromProto(bound) ==
  /\ proc = "running"
  /\ Len(heap) <= bound
  /\ \E gproto \in MsgsAtHand, use \in UseOutcomes :
       LET c == [op |-> "from_proto", msg |-> gproto, pbAtEntry |-> pb]
           r == Graph_from_proto(gproto, heap)
       IN /\ NumRecords(gproto) <= MaxRecords
          /\ IF use = "crash" \/ r.status = "abort" THEN Crash(c)
             ELSE /\ call' = c
                  /\ heap' = r.heap
                  /\ ret' = [status |-> "ok", graph |-> r.op]
                  /\ UNCHANGED <<proc, file, pb, handles>>

\* std::ofstream / std::ifstream constructed on a path (graph.cpp 256, 279):
\* the handles the stream holds
fstream_open(opened) == IF opened THEN 1 ELSE 0

\* a stream leaving its scope, at the end of the block or at a return from
\* inside it (graph.cpp 258, 266, 281, 288, 292): the handles it still holds
fstream_leaves(held) == 0

\* to_file: graph.cpp 248-271.  serialized is what SerializeToOstream
\* returns: writing may fail.  The file is opened once, at line 256.
ToFile ==
  /\ proc = "running"
  /\ \E g \in Roots, path \in Paths, serialized \in BOOLEAN, use \in UseOutcomes :
       LET c == [op |-> "to_file", g |-> g, path |-> path, pbAtEntry |-> pb,
                 serialized |-> serialized]
           gproto == Graph_to_proto(heap, g)
           held == fstream_open(path = GoodPath)
       IN IF use = "crash" THEN Crash(c)
          ELSE IF path = BadPath
            THEN /\ call' = c
                 /\ ret' = [status |-> "InvalidArgumentError", didShutdown |-> FALSE,
                            attempts |-> 1]
                 /\ handles' = handles + fstream_leaves(held)
                 /\ UNCHANGED <<heap, proc, file, pb>>
          ELSE /\ call' = c
               /\ file' = IF serialized THEN Encoded(gproto) ELSE Garbage
               /\ pb' = "shutdown"
               /\ ret' = [status |-> IF serialized THEN "ok" ELSE "AbortedError",
                          didShutdown |-> TRUE, attempts |-> 1]
               /\ handles' = handles + fstream_leaves(held)
               /\ UNCHANGED <<heap, proc>>

\* from_file: graph.cpp 273-296.  The file is opened once, at line 279.
FromFile(bound) ==
  /\ proc = "running"
  /\ Len(heap) <= bound
  /\ \E path \in Paths, use \in UseOutcomes :
       LET opened == path = GoodPath /\ file.state = "bytes"
           parsed == opened /\ file.parses
           held == fstream_open(opened)
           c == [op |-> "from_file", path |-> path, pbAtEntry |-> pb,
                 msg |-> IF parsed THEN file.message ELSE DefaultGraph,
                 opened |-> opened, parsed |-> parsed]
       IN /\ parsed => NumRecords(file.message) <= MaxRecords
          /\ IF use = "crash" THEN Crash(c)
             ELSE IF ~opened
               THEN /\ call' = c
                    /\ ret' = [status |-> "InvalidArgumentError", didShutdown |-> FALSE,
                               attempts |-> 1]
                    /\ handles' = handles + fstream_leaves(held)
                    /\ UNCHANGED <<heap, proc, file, pb>>
             ELSE IF ~parsed
               THEN /\ call' = c
                    /\ pb' = "shutdown"
                    /\ ret' = [status |-> "AbortedError", didShutdown |-> TRUE,
                               attempts |-> 1]
                    /\ handles' = handles + fstream_leaves(held)
                    /\ UNCHANGED <<heap, proc, file>>
             ELSE LET r == Graph_from_proto(file.message, heap) IN
                  IF r.status = "abort" THEN Crash(c)
                  ELSE /\ call' = c
                       /\ heap' = r.heap
                       /\ ret' = [status |-> "ok", graph |-> r.op, didShutdown |-> FALSE,
                                  attempts |-> 1]
                       /\ handles' = handles + fstream_leaves(held)
                       /\ UNCHANGED <<proc, file, pb>>

InitCodec ==
  /\ heap = <<>>
  /\ call = NoCall
  /\ ret = NoRet
  /\ proc = "running"
  /\ file \in InitialFiles
  /\ pb = "live"
  /\ handles = 0

\* the runs that write and read files
NextCodec ==
  \/ MkGraph(MaxCodecNodes)
  \/ Plus(MaxCodecNodes)
  \/ Times(MaxCodecNodes)
  \/ ToFile
  \/ FromFile(MaxCodecNodes)

SpecCodec == InitCodec /\ [][NextCodec]_vars

\* the runs that encode and decode messages in memory
NextProto ==
  \/ MkGraph(MaxNodes)
  \/ Plus(MaxNodes)
  \/ Times(MaxNodes)
  \/ ToProto
  \/ FromProto(MaxNodes)

SpecProto == Init /\ [][NextProto]_vars

(***************************************************************************)
(* Claims about the codec.                                                 *)
(***************************************************************************)
\* the nodes reachable from g, g included
RECURSIVE Reach(_, _)
Reach(h, g) ==
  IF h[g].kind \in {"Sum", "Mul"}
    THEN {g} \cup Reach(h, h[g].op1) \cup Reach(h, h[g].op2)
    ELSE {g}

\* the operand slots among the nodes reachable from g that point at node i
ParentSlots(h, g, i) ==
  {<<n, slot>> \in Reach(h, g) \X {1, 2} :
     /\ h[n].kind \in {"Sum", "Mul"}
     /\ i = IF slot = 1 THEN h[n].op1 ELSE h[n].op2}

\* no node reachable from g is the operand of two slots
NoSharing(h, g) ==
  \A i \in Reach(h, g) : Cardinality(ParentSlots(h, g, i)) <= 1

\* the nodes of an expression written out as a tree
RECURSIVE TermSize(_)
TermSize(t) ==
  IF t[1] \in {"Sum", "Mul"} THEN 1 + TermSize(t[2]) + TermSize(t[3]) ELSE 1

\* two graphs agree on eval and eval_grad for every Inputs that binds their names
SameResults(h, g1, g2) ==
  /\ NamesOf(Unfold(h, g1)) = NamesOf(Unfold(h, g2))
  /\ \A inputs \in InputsSet :
       Bound(h, g1, inputs) =>
         /\ Graph_eval(h, g2, inputs) = Graph_eval(h, g1, inputs)
         /\ \A iter \in IterOrders(inputs) :
              LET r1 == Graph_eval_grad(h, g1, inputs, iter)
                  r2 == Graph_eval_grad(h, g2, inputs, iter)
              IN r2.status = r1.status /\ r2.value = r1.value /\ r2.grad = r1.grad

\* the last call decoded the encoding of a graph g of the heap
DecodedEncodingOf(g) ==
  /\ call.op \in {"from_proto", "from_file"}
  /\ call.op = "from_file" => call.parsed
  /\ call.msg = Graph_to_proto(heap, g)

RoundTripWhileLive ==
  \A g \in Roots :
    (DecodedEncodingOf(g) /\ call.pbAtEntry = "live") =>
      /\ proc = "running"
      /\ ret.status = "ok"
      /\ SameResults(heap, g, ret.graph)

\* C6: decoding a message in which some record, at any depth, carries no
\* case returns an InvalidEncoding error; the process keeps running and no
\* graph is returned.
C6_InvalidEncoding ==
  (/\ call.op \in {"from_proto", "from_file"}
   /\ call.op = "from_file" => call.parsed
   /\ ~WellFormed(call.msg)) =>
     /\ proc = "running"
     /\ ret.status = "InvalidEncoding"

\* C9 as stated: the records to_proto emits are at most a constant (here 2)
\* times the distinct nodes reachable from the root.
C9_LinearInDistinctNodes ==
  (call.op = "to_proto" /\ ret.status = "ok") =>
    NumRecords(ret.msg) <= 2 * Cardinality(Reach(heap, call.g))

\* C9 as amended: to_proto emits one record per node of the expression
\* written out as a tree (a shared subgraph once per use), never fewer than
\* the distinct reachable nodes, and exactly as many when no node is shared.
C9_RecordsOfUnfolding ==
  (call.op = "to_proto" /\ ret.status = "ok") =>
    /\ NumRecords(ret.msg) = TermSize(Unfold(heap, call.g))
    /\ NumRecords(ret.msg) >= Cardinality(Reach(heap, call.g))
    /\ NoSharing(heap, call.g) =>
         NumRecords(ret.msg) = Cardinality(Reach(heap, call.g))

\* a graph of three nodes, each level using the one below twice, encoded
C9_Witness ==
  /\ call.op = "to_proto"
  /\ ret.status = "ok"
  /\ Cardinality(Reach(heap, call.g)) = 3
  /\ ~NoSharing(heap, call.g)
  /\ NumRecords(ret.msg) = 7

\* C10: over the to_file and from_file calls of one process, none builds,
\* serializes or parses a message after ShutdownProtobufLibrary has run.
C10_NoUseAfterShutdown ==
  call.op \in {"to_file", "from_file"} => call.pbAtEntry # "shutdown"

(***************************************************************************)
(* Claims about file operations.                                           *)
(***************************************************************************)
FileCalls == {"to_file", "from_file"}

\* what the call record says went wrong: the file could not be opened, the
\* graph could not be written, or the content could not be parsed
FileFailure ==
  \/ call.op = "to_file" /\ (call.path = BadPath \/ ~call.serialized)
  \/ call.op = "from_file" /\ (~call.opened \/ ~call.parsed)

ReturnedFileCalls ==
  (call.op \in FileCalls /\ proc = "running") =>
    /\ ret.attempts = 1
    /\ handles = 0
    /\ FileFailure <=> ret.status # "ok"
    /\ FileFailure => /\ ret.status \in {"InvalidArgumentError", "AbortedError"}
                      /\ "graph" \notin DOMAIN ret

(***************************************************************************)
(* Claims about the gradient buffer.                                       *)
(***************************************************************************)
\* C12: during eval_grad, for any graph and any Inputs (empty, or lacking a
\* name some Var refers to, included), every write to a gradient buffer is
\* at an index in [0, |Inputs|).
C12_WritesInBounds ==
  call.op = "eval_grad" => ~ret.oob

=============================================================================
